---------------------------- MODULE Spec2Model ----------------------------
(***************************************************************************)
(* Model of the vnode realization pipeline of io_scene_gltf_ksons:         *)
(*   node.py                    realize_vtree (pass 1, pass 2), the         *)
(*                              realize_* creators and the scene linker     *)
(*   animation/morph_weight.py  find_mesh_instances and                     *)
(*                              add_morph_weight_animation                  *)
(*                                                                         *)
(* bpy is modelled by the part of its state the code reads and writes:     *)
(* the interaction mode, bpy.data.objects (names are made unique on        *)
(* creation), the scene's object collection, edit bones / pose bones of    *)
(* each armature, and the vertex groups, modifiers and constraints of      *)
(* each object.  Transforms (TRS, head/tail/roll) and leaf data are not    *)
(* represented; a creation call of pass 1 either succeeds or raises.       *)
(* Of an animation only the actions it creates are represented (the curves *)
(* are not), and bpy.data.actions.new is taken to succeed.                 *)
(***************************************************************************)
EXTENDS Integers, Sequences, FiniteSets, TLC

(* ------------------------------ bounds -------------------------------- *)
\* number of vnodes of the tree (vnode 1 is op.root_vnode)
MaxNodes == 5
\* longest joint list of the skin
MaxJoints == 2
\* how many times link_tree_into_scene is called again after realize_vtree
MaxRelinks == 1
\* longest mesh_moved_to list of a vnode
MaxMoved == 2
\* number of vnodes that take part in mesh forwarding
MaxFm == 3

(* ----------------------------- constants ------------------------------ *)
\* Python's None for a vnode / object reference (references are >= 1)
None == 0
\* None for a name or a scale (both are tuples)
NoValue == <<>>

VNodes == 1..MaxNodes
root_vnode == 1
Names == {"a"}
Scales == {<<2, 3, 4>>}
UnitScale == <<1, 1, 1>>
\* the render engines of a build: BLENDER_RENDER is gone in 2.80
EnginesOf(is280) ==
    IF is280 THEN {"BLENDER_EEVEE"} ELSE {"BLENDER_RENDER", "CYCLES"}
\* the mesh attribute of a vnode: has (truthiness of vnode.mesh) and
\* skin (vnode.mesh['skin'], a skin id or None)
NoMesh == [has |-> FALSE, skin |-> None]
MeshNoSkin == [has |-> TRUE, skin |-> None]
MeshSkinned == [has |-> TRUE, skin |-> 1]

VARIABLES
    \* ---- the vnode tree and the importer's options (inputs)
    parent,          \* vnode.parent (None for the root)
    vtype,           \* vnode.type
    name,            \* vnode.name
    armature_vnode,  \* vnode.armature_vnode (BONE vnodes)
    mesh,            \* vnode.mesh
    posebone_s,      \* vnode.posebone_s
    mesh_moved_to,   \* vnode.mesh_moved_to
    joints,          \* op.gltf['skins'][1]['joints'], node ids = vnode ids
    shape_keys,      \* truthiness of the shape_keys of the vnode's mesh data
    add_root,        \* op.options['add_root']
    v280,            \* bpy.app.version >= (2, 80, 0)
    \* ---- fields the realization sets on the vnodes
    blender_object,  \* vnode.blender_object (an index of objects, or None)
    blender_name,    \* vnode.blender_name
    blender_editbone,\* vnode.blender_editbone (<<armature object, index>>)
    \* ---- bpy
    mode,            \* the interaction mode
    objects,         \* bpy.data.objects, a sequence of object records
    scene,           \* members of the scene's object collection
    render_engine,   \* bpy.context.scene.render.engine
    \* ---- control
    pc,              \* where realize_vtree is
    stack,           \* the frames of the recursion in progress
    \* ---- find_mesh_instances
    fm,              \* its frames, and its result
    \* ---- add_morph_weight_animation
    mw,              \* its position, bpy.data.actions, anim_info.morph_actions
    \* ---- observation of the run
    hist

vars == <<parent, vtype, name, armature_vnode, mesh, posebone_s, mesh_moved_to,
          joints, shape_keys, add_root, v280, blender_object, blender_name,
          blender_editbone, mode, objects, scene, render_engine, pc, stack,
          fm, mw, hist>>

inputs == <<parent, vtype, name, armature_vnode, mesh, posebone_s,
            mesh_moved_to, joints, shape_keys, add_root, v280>>

(* ------------------------------ helpers ------------------------------- *)
Range(s) == {s[i] : i \in DOMAIN s}

RECURSIVE SetToSeq(_)
\* the elements of a set of numbers, ascending
SetToSeq(S) ==
    IF S = {} THEN <<>>
    ELSE LET m == CHOOSE x \in S : \A y \in S : x <= y
         IN  <<m>> \o SetToSeq(S \ {m})

\* vnode.children, in order
children(n) == SetToSeq({c \in VNodes : parent[c] = n})

RECURSIVE Ancestors(_, _)
\* the strict ancestors of n under parent function par
Ancestors(par, n) ==
    IF par[n] = None THEN {} ELSE {par[n]} \cup Ancestors(par, par[n])

RECURSIVE Pick(_, _)
\* the assignments f of a value to each of the vnodes 1..k, f[n] in S[n]
Pick(S, k) ==
    IF k = 0 THEN {<<>>}
    ELSE {Append(f, x) : f \in Pick(S, k - 1), x \in S[k]}

\* Blender's unique naming: the base name, or the first free numbered
\* variant (<<"a", 1>> stands for "a.001")
Uniq(base, used) ==
    LET k == CHOOSE k \in 0..Cardinality(used) :
                 /\ <<base, k>> \notin used
                 /\ \A j \in 0..(k - 1) : <<base, j>> \in used
    IN  <<base, k>>


(* --------------------------- bpy.data.objects -------------------------- *)
\* a fresh object: no parent, no vertex groups, modifiers or constraints,
\* and (for an armature) no bones
NewObject(nm) ==
    [name |-> nm, parent |-> None, parent_type |-> "OBJECT",
     parent_bone |-> NoValue, vertex_groups |-> <<>>, modifiers |-> <<>>,
     constraints |-> <<>>, edit_bones |-> <<>>, pose |-> <<>>]

ObjectNames == {objects[i].name : i \in DOMAIN objects}

\* an object that exists before the import
PreObject == NewObject(<<"a", 0>>)

(* ------------------------------- Init --------------------------------- *)
\* trees over VNodes, numbered in pre-order (so that vnode.children is in
\* increasing order and the root is vnode 1)
Trees ==
    {p \in [VNodes -> 0..MaxNodes] :
        /\ p[root_vnode] = None
        /\ \A n \in VNodes \ {root_vnode} :
              p[n] \in {n - 1} \cup Ancestors(p, n - 1)}

ArmatureAncestors(par, ty, n) == {a \in Ancestors(par, n) : ty[a] = "ARMATURE"}

\* the data-model invariants of the types: one ROOT, at the top; a BONE
\* lies below an ARMATURE
TypesOf(par) ==
    {ty \in [VNodes -> {"ROOT", "OBJECT", "ARMATURE", "BONE"}] :
        /\ \A n \in VNodes : (ty[n] = "ROOT") <=> (n = root_vnode)
        /\ \A n \in VNodes :
              ty[n] = "BONE" => ArmatureAncestors(par, ty, n) # {}}

\* armature_vnode of a BONE is one of its ARMATURE ancestors
OwnersOf(par, ty) ==
    Pick([n \in VNodes |-> IF ty[n] = "BONE" THEN ArmatureAncestors(par, ty, n)
                           ELSE {None}], MaxNodes)

\* joint lists: bones of one armature, none twice, at least one
JointLists(ty, ow) ==
    {js \in UNION {[1..k -> VNodes] : k \in 1..MaxJoints} :
        /\ \A i \in DOMAIN js : ty[js[i]] = "BONE" /\ ow[js[i]] = ow[js[1]]
        /\ \A i, j \in DOMAIN js : i # j => js[i] # js[j]}

\* only an OBJECT carries a mesh
MeshesOf(ty) ==
    Pick([n \in VNodes |-> IF ty[n] = "OBJECT"
                           THEN {NoMesh, MeshNoSkin, MeshSkinned}
                           ELSE {NoMesh}], MaxNodes)

\* only a BONE carries a pose scale
PoseScalesOf(ty) ==
    Pick([n \in VNodes |-> IF ty[n] = "BONE" THEN Scales \cup {NoValue}
                           ELSE {NoValue}], MaxNodes)

NoHist ==
    [open |-> {}, enters |-> [n \in VNodes |-> 0],
     exits |-> [n \in VNodes |-> 0], boneOpen |-> [n \in VNodes |-> {}],
     done1 |-> {}, done2 |-> {}, early |-> {}, ownerSeen |-> [n \in VNodes |-> None],
     failed |-> None, posed |-> {}, links |-> 0, before |-> {}, linked |-> {},
     atExit |-> [n \in VNodes |-> NoValue],
     boneExits |-> [n \in VNodes |-> 0], deref |-> {}, error |-> NoValue]

FmIdle == [pc |-> "idle", of |-> None, frames |-> <<>>, result |-> <<>>]

\* add_morph_weight_animation has not been called: no action exists
MwIdle ==
    [pc |-> "idle", node_id |-> None, i |-> 1, actions |-> <<>>,
     morph_actions |-> {}]

InitRealized ==
    /\ blender_object = [n \in VNodes |-> None]
    /\ blender_name = [n \in VNodes |-> NoValue]
    /\ blender_editbone = [n \in VNodes |-> NoValue]
    /\ objects = <<PreObject>>
    /\ stack = <<>>
    /\ hist = NoHist

Init ==
    /\ parent \in Trees
    /\ vtype \in TypesOf(parent)
    /\ armature_vnode \in OwnersOf(parent, vtype)
    /\ name \in [VNodes -> Names]
    /\ mesh \in MeshesOf(vtype)
    /\ joints \in IF \E n \in VNodes : mesh[n].skin # None
                  THEN JointLists(vtype, armature_vnode) ELSE {<<>>}
    /\ posebone_s \in PoseScalesOf(vtype)
    /\ mesh_moved_to = [n \in VNodes |-> <<>>]
    /\ shape_keys = [n \in VNodes |-> FALSE]
    /\ add_root \in BOOLEAN
    /\ v280 \in BOOLEAN
    /\ mode \in {"OBJECT", "EDIT"}
    /\ scene = {1}
    /\ render_engine \in EnginesOf(v280)
    /\ pc = "start"
    /\ fm = FmIdle
    /\ mw = MwIdle
    /\ InitRealized

(* ------------------------- realize_vtree: start ------------------------ *)
\* try: bpy.ops.object.mode_set(mode='OBJECT'); except Exception: pass
Start ==
    /\ pc = "start"
    /\ \E ok \in BOOLEAN : mode' = IF ok THEN "OBJECT" ELSE mode
    /\ pc' = "pass1"
    /\ UNCHANGED <<inputs, blender_object, blender_name, blender_editbone,
                   objects, scene, render_engine, stack, fm, mw, hist>>

(* ------------------------ the depth-first recursion -------------------- *)
\* a frame is a call of realize_vnode / pass2 on vnode, about to run the
\* i-th iteration of `for child in vnode.children`.  A call whose loop is
\* over and that has nothing left to do returns at once: the stack holds
\* the calls that still have work.
Top == stack[Len(stack)]

Finished(frame) == frame.i > Len(children(frame.vnode))

\* faulty variant: the post-order step of realize_vnode is missing
HasExit_Never(pass, n) == FALSE

\* the work left after the loop over the children: realize_vnode leaves
\* edit mode on an ARMATURE, pass2 has none
HasExit(pass, n) == pass = "pass1" /\ vtype[n] = "ARMATURE"

RECURSIVE Unwind(_, _)
\* the stack after the calls that are over have returned
Unwind(pass, st) ==
    IF st = <<>> THEN st
    ELSE LET f == st[Len(st)] IN
         IF Finished(f) /\ ~HasExit(pass, f.vnode)
         THEN Unwind(pass, SubSeq(st, 1, Len(st) - 1))
         ELSE st

\* the recursion is about to call itself: on the root, or on the next child
CanEnter(done) ==
    IF stack = <<>> THEN root_vnode \notin done ELSE ~Finished(Top)

NextVnode == IF stack = <<>> THEN root_vnode ELSE children(Top.vnode)[Top.i]

\* the stack once the call on n has run the code before its loop
Push(pass, n) ==
    Unwind(pass,
        IF stack = <<>> THEN <<[vnode |-> n, i |-> 1]>>
        ELSE Append([stack EXCEPT ![Len(stack)].i = @ + 1],
                    [vnode |-> n, i |-> 1]))

\* the stack once the call on top has returned
Pop(pass) == Unwind(pass, SubSeq(stack, 1, Len(stack) - 1))

\* the traversal is over when its stack is empty again
PcAfter(st, next) == IF st = <<>> THEN next ELSE pc

RECURSIVE SumOver(_, _)
\* the sum of f over the vnodes 1..k
SumOver(f, k) == IF k = 0 THEN 0 ELSE f[k] + SumOver(f, k - 1)

\* how many times the post-order mode_set(mode='OBJECT') has run so far
Exits == SumOver(hist.exits, MaxNodes)

\* reads of blender_object / blender_name / blender_editbone of the vnodes
\* of `targets` by the step of vnode n: those made before the target's own
\* pass-1 step has completed are recorded
EarlyReads(n, targets) == {<<n, t>> : t \in targets \ hist.done1}

(* ----------------------- what pass 2 looks at ------------------------- *)
\* op.node_id_to_vnode: node ids and vnode ids coincide here
node_id_to_vnode(node_id) == node_id


\* vnode.mesh and vnode.mesh['skin'] != None
HasSkin(n) == mesh[n].has /\ mesh[n].skin # None

\* vnode.type == 'BONE' and vnode.posebone_s is not None
HasPoseScale(n) == vtype[n] = "BONE" /\ posebone_s[n] # NoValue

\* the vnodes whose blender_object / blender_name the pass-2 step of n reads
Pass2Reads(n) ==
    (IF HasSkin(n)
     THEN {n} \cup {node_id_to_vnode(joints[i]) : i \in DOMAIN joints}
              \cup {armature_vnode[node_id_to_vnode(joints[1])]}
     ELSE {})
    \cup (IF HasPoseScale(n) THEN {n, armature_vnode[n]} ELSE {})

(* -------------------------- pass 1: realize_* -------------------------- *)
\* faulty variant: below a BONE, obj.parent_type is left at its default
ObjectParent_NoBoneType(n) ==
    IF parent[n] = None THEN [parent |-> None, parent_type |-> "OBJECT",
                              parent_bone |-> NoValue]
    ELSE IF vtype[parent[n]] = "BONE"
         THEN [parent |-> blender_object[armature_vnode[parent[n]]],
               parent_type |-> "OBJECT",
               parent_bone |-> blender_name[parent[n]]]
    ELSE [parent |-> blender_object[parent[n]], parent_type |-> "OBJECT",
          parent_bone |-> NoValue]

\* the parent link realize_object gives the new object
ObjectParent(n) ==
    IF parent[n] = None THEN [parent |-> None, parent_type |-> "OBJECT",
                              parent_bone |-> NoValue]
    ELSE IF vtype[parent[n]] = "BONE"
         THEN [parent |-> blender_object[armature_vnode[parent[n]]],
               parent_type |-> "BONE",
               parent_bone |-> blender_name[parent[n]]]
    ELSE [parent |-> blender_object[parent[n]], parent_type |-> "OBJECT",
          parent_bone |-> NoValue]

ObjectReads(n) ==
    IF parent[n] = None THEN {}
    ELSE IF vtype[parent[n]] = "BONE"
         THEN {armature_vnode[parent[n]], parent[n]}
    ELSE {parent[n]}

\* bpy.data.objects.new(base, data): the new object and its index
ObjectsNew(base, link) ==
    Append(objects,
           [NewObject(Uniq(base, ObjectNames)) EXCEPT
               !.parent = link.parent, !.parent_type = link.parent_type,
               !.parent_bone = link.parent_bone])

\* faulty variant: one pass only: the skin is bound as soon as the object exists
realize_object_SinglePass ==
    /\ pc = "pass1" /\ CanEnter(hist.done1)
    /\ LET n == NextVnode IN
       /\ vtype[n] = "OBJECT"
       /\ objects' = ObjectsNew(name[n], ObjectParent(n))
       /\ blender_object' = [blender_object EXCEPT ![n] = Len(objects) + 1]
       /\ stack' = Push("pass1", n)
       /\ pc' = PcAfter(Push("pass1", n), "pass2")
       /\ hist' = [hist EXCEPT
                     !.done1 = @ \cup {n},
                     !.early = @ \cup EarlyReads(n, ObjectReads(n))
                                 \cup EarlyReads(n, Pass2Reads(n) \ {n})]
    /\ UNCHANGED <<inputs, blender_name, blender_editbone, mode, scene,
                   render_engine, fm, mw>>

realize_object ==
    /\ pc = "pass1" /\ CanEnter(hist.done1)
    /\ LET n == NextVnode IN
       /\ vtype[n] = "OBJECT"
       /\ objects' = ObjectsNew(name[n], ObjectParent(n))
       /\ blender_object' = [blender_object EXCEPT ![n] = Len(objects) + 1]
       /\ stack' = Push("pass1", n)
       /\ pc' = PcAfter(Push("pass1", n), "pass2")
       /\ hist' = [hist EXCEPT !.done1 = @ \cup {n},
                               !.early = @ \cup EarlyReads(n, ObjectReads(n))]
    /\ UNCHANGED <<inputs, blender_name, blender_editbone, mode, scene,
                   render_engine, fm, mw>>

\* bpy.ops.object.add(type='ARMATURE', enter_editmode=True) creates the
\* object, links it into the scene and enters edit mode
realize_armature ==
    /\ pc = "pass1" /\ CanEnter(hist.done1)
    /\ LET n == NextVnode IN
       /\ vtype[n] = "ARMATURE"
       /\ objects' = ObjectsNew("Armature",
                        [parent |-> IF parent[n] = None THEN None
                                    ELSE blender_object[parent[n]],
                         parent_type |-> "OBJECT", parent_bone |-> NoValue])
       /\ scene' = scene \cup {Len(objects) + 1}
       /\ mode' = "EDIT"
       /\ blender_object' = [blender_object EXCEPT ![n] = Len(objects) + 1]
       /\ stack' = Push("pass1", n)
       /\ pc' = PcAfter(Push("pass1", n), "pass2")
       /\ hist' = [hist EXCEPT
                     !.done1 = @ \cup {n},
                     !.enters[n] = @ + 1,
                     !.open = @ \cup {n},
                     !.early = @ \cup EarlyReads(n, IF parent[n] = None THEN {}
                                                   ELSE {parent[n]})]
    /\ UNCHANGED <<inputs, blender_name, blender_editbone, render_engine, fm, mw>>

\* the parent of the new edit bone: the parent vnode's edit bone, if it has one
EditboneParent(n) ==
    IF parent[n] # None /\ blender_editbone[parent[n]] # NoValue
    THEN blender_editbone[parent[n]] ELSE NoValue

realize_bone ==
    /\ pc = "pass1" /\ CanEnter(hist.done1)
    /\ LET n == NextVnode
           armature == blender_object[armature_vnode[n]]
           bones == objects[armature].edit_bones
           editbone == [name |-> Uniq(name[n], {bones[i].name : i \in DOMAIN bones}),
                        use_connect |-> FALSE,
                        parent |-> EditboneParent(n)]
       IN
       /\ vtype[n] = "BONE"
       /\ objects' = [objects EXCEPT
                        ![armature].edit_bones = Append(@, editbone),
                        ![armature].pose = Append(@, UnitScale)]
       /\ blender_name' = [blender_name EXCEPT ![n] = editbone.name]
       /\ blender_editbone' =
              [blender_editbone EXCEPT ![n] = <<armature, Len(bones) + 1>>]
       /\ stack' = Push("pass1", n)
       /\ pc' = PcAfter(Push("pass1", n), "pass2")
       /\ hist' = [hist EXCEPT
                     !.done1 = @ \cup {n},
                     !.boneOpen[n] = hist.open,
                     !.ownerSeen[n] = armature,
                     !.boneExits[n] = Exits,
                     !.deref = @ \cup
                         (IF EditboneParent(n) = NoValue THEN {}
                          ELSE {[bone |-> n, parent |-> parent[n],
                                 exits |-> Exits - hist.boneExits[parent[n]]]}),
                     !.early = @ \cup EarlyReads(n,
                                   {armature_vnode[n]} \cup
                                   (IF parent[n] = None THEN {} ELSE {parent[n]}))]
    /\ UNCHANGED <<inputs, blender_object, mode, scene, render_engine, fm, mw>>

realize_root ==
    /\ pc = "pass1" /\ CanEnter(hist.done1)
    /\ LET n == NextVnode IN
       /\ vtype[n] = "ROOT"
       /\ IF ~add_root
          THEN UNCHANGED <<objects, blender_object>>
          ELSE /\ objects' = ObjectsNew("file",
                                [parent |-> None, parent_type |-> "OBJECT",
                                 parent_bone |-> NoValue])
               /\ blender_object' = [blender_object EXCEPT ![n] = Len(objects) + 1]
       /\ stack' = Push("pass1", n)
       /\ pc' = PcAfter(Push("pass1", n), "pass2")
       /\ hist' = [hist EXCEPT !.done1 = @ \cup {n}]
    /\ UNCHANGED <<inputs, blender_name, blender_editbone, mode, scene,
                   render_engine, fm, mw>>

\* faulty variant: the exception of a creation call is caught and the vnode skipped
CreateFails_Swallowed ==
    /\ pc = "pass1" /\ CanEnter(hist.done1)
    /\ vtype[NextVnode] = "ROOT" => add_root
    /\ stack' = Push("pass1", NextVnode)
    /\ pc' = PcAfter(Push("pass1", NextVnode), "pass2")
    /\ hist' = [hist EXCEPT !.failed = NextVnode, !.done1 = @ \cup {NextVnode}]
    /\ UNCHANGED <<inputs, blender_object, blender_name, blender_editbone,
                   mode, objects, scene, render_engine, fm, mw>>

\* a creation call of realize_* raises: nothing catches it in realize_vtree
CreateFails ==
    /\ pc = "pass1" /\ CanEnter(hist.done1)
    /\ vtype[NextVnode] = "ROOT" => add_root
    /\ pc' = "raised"
    /\ hist' = [hist EXCEPT !.failed = NextVnode]
    /\ UNCHANGED <<inputs, blender_object, blender_name, blender_editbone,
                   mode, objects, scene, render_engine, stack, fm, mw>>

\* `obj.name in collection.objects`: membership is looked up by name
NameIn(obj, members) == \E m \in members : objects[m].name = objects[obj].name

\* faulty variant: the armature is left in the scene
Unlinked_Skip(obj) == [members |-> scene, raised |-> FALSE]

\* the scene after the unlink of node.py 38-43: guarded by a membership test
\* from 2.80 on, unconditional (and raising on a non-member) before
Unlinked(obj) ==
    IF v280
    THEN [members |-> IF NameIn(obj, scene) THEN scene \ {obj} ELSE scene,
          raised |-> FALSE]
    ELSE [members |-> scene \ {obj}, raised |-> obj \notin scene]

\* faulty variant: the mode_set(mode='OBJECT') of the post-order step is
\* missing, the unlink is there
LeaveArmature_KeepMode ==
    /\ pc = "pass1" /\ stack # <<>> /\ Finished(Top)
    /\ LET n == Top.vnode IN
       /\ vtype[n] = "ARMATURE"
       /\ mode' = mode
       /\ scene' = Unlinked(blender_object[n]).members
       /\ hist' = [hist EXCEPT
                     !.exits[n] = @ + 1, !.open = @ \ {n},
                     !.atExit[n] = [mode |-> mode', done |-> hist.done1,
                                    was_member |-> blender_object[n] \in scene,
                                    member |-> blender_object[n] \in scene']]
       /\ pc' = IF Unlinked(blender_object[n]).raised THEN "raised"
                ELSE PcAfter(Pop("pass1"), "pass2")
    /\ stack' = Pop("pass1")
    /\ UNCHANGED <<inputs, blender_object, blender_name, blender_editbone,
                   objects, render_engine, fm, mw>>

\* after the loop over the children of an ARMATURE: back to object mode,
\* and the armature is unlinked from the scene
LeaveArmature ==
    /\ pc = "pass1" /\ stack # <<>> /\ Finished(Top)
    /\ LET n == Top.vnode IN
       /\ vtype[n] = "ARMATURE"
       /\ mode' = "OBJECT"
       /\ scene' = Unlinked(blender_object[n]).members
       /\ hist' = [hist EXCEPT
                     !.exits[n] = @ + 1, !.open = @ \ {n},
                     !.atExit[n] = [mode |-> mode', done |-> hist.done1,
                                    was_member |-> blender_object[n] \in scene,
                                    member |-> blender_object[n] \in scene']]
       /\ pc' = IF Unlinked(blender_object[n]).raised THEN "raised"
                ELSE PcAfter(Pop("pass1"), "pass2")
    /\ stack' = Pop("pass1")
    /\ UNCHANGED <<inputs, blender_object, blender_name, blender_editbone,
                   objects, render_engine, fm, mw>>

Pass1 ==
    \/ realize_object \/ realize_armature \/ realize_bone \/ realize_root
    \/ CreateFails \/ LeaveArmature

(* -------------------------------- pass 2 ------------------------------- *)
\* obj.vertex_groups.new(name=nm): the group gets a name unique in the object
VertexGroupsNew(groups, nm) ==
    Append(groups, IF nm \in Range(groups) THEN Uniq(nm[1], Range(groups)) ELSE nm)

RECURSIVE CreateVertexGroups_VnodeName(_, _)
\* faulty variant: the groups are named by vnode.name, not by blender_name
CreateVertexGroups_VnodeName(groups, js) ==
    IF js = <<>> THEN groups
    ELSE CreateVertexGroups_VnodeName(
             VertexGroupsNew(groups, <<name[node_id_to_vnode(Head(js))], 0>>),
             Tail(js))

RECURSIVE CreateVertexGroups(_, _)
\* for node_id in joints: obj.vertex_groups.new(name=<its blender_name>)
CreateVertexGroups(groups, js) ==
    IF js = <<>> THEN groups
    ELSE CreateVertexGroups(
             VertexGroupsNew(groups, blender_name[node_id_to_vnode(Head(js))]),
             Tail(js))

\* the armature the skin modifier and the constraint point at
SkinArmature == blender_object[armature_vnode[node_id_to_vnode(joints[1])]]

\* the objects after `if vnode.mesh and vnode.mesh['skin'] != None: ...`
SkinObjects(n, objs) ==
    IF ~HasSkin(n) THEN objs
    ELSE [objs EXCEPT
            ![blender_object[n]].vertex_groups = CreateVertexGroups(@, joints),
            ![blender_object[n]].modifiers =
                Append(@, [name |-> "Skin", type |-> "ARMATURE",
                           object |-> SkinArmature,
                           use_vertex_groups |-> TRUE]),
            ![blender_object[n]].constraints =
                Append(@, [type |-> "COPY_TRANSFORMS", owner_space |-> "LOCAL",
                           target_space |-> "LOCAL", target |-> SkinArmature])]

\* blender_object.pose.bones[nm]: the index of the bone of that name
PoseBone(obj, nm) ==
    CHOOSE i \in DOMAIN obj.edit_bones : obj.edit_bones[i].name = nm

\* faulty variant: the pose bone is looked up by vnode.name, not by blender_name
PoseObjects_VnodeName(n, objs) ==
    IF ~HasPoseScale(n) THEN objs
    ELSE LET armature == blender_object[armature_vnode[n]] IN
         [objs EXCEPT ![armature].pose[PoseBone(objs[armature], <<name[n], 0>>)] =
                          posebone_s[n]]

\* the objects after `if vnode.type == 'BONE' and vnode.posebone_s is not None`
PoseObjects(n, objs) ==
    IF ~HasPoseScale(n) THEN objs
    ELSE LET armature == blender_object[armature_vnode[n]] IN
         [objs EXCEPT ![armature].pose[PoseBone(objs[armature], blender_name[n])] =
                          posebone_s[n]]

\* obj = vnode.blender_object is None on a vnode pass 1 gave no object
\* (the linker tests `if vnode.blender_object` on every vnode): the first
\* obj.vertex_groups of the loop over the joints is an AttributeError
Pass2Raises(n) == HasSkin(n) /\ blender_object[n] = None

pass2 ==
    /\ pc = "pass2" /\ CanEnter(hist.done2)
    /\ LET n == NextVnode IN
       IF Pass2Raises(n)
       THEN /\ pc' = "raised"
            /\ hist' = [hist EXCEPT !.error = "AttributeError"]
            /\ UNCHANGED <<objects, stack>>
       ELSE
       /\ objects' = PoseObjects(n, SkinObjects(n, objects))
       /\ stack' = Push("pass2", n)
       /\ pc' = PcAfter(Push("pass2", n), "link")
       /\ hist' = [hist EXCEPT
                     !.done2 = @ \cup {n},
                     !.early = @ \cup EarlyReads(n, Pass2Reads(n)),
                     !.posed = @ \cup (IF HasPoseScale(n)
                                       THEN {<<blender_object[armature_vnode[n]],
                                               blender_name[n]>>}
                                       ELSE {})]
    /\ UNCHANGED <<inputs, blender_object, blender_name, blender_editbone,
                   mode, scene, render_engine, fm, mw>>

(* ----------------------------- scene linker ---------------------------- *)
\* collection.objects.link(obj) raises on an object that is linked already
CollectionLink(sc, obj) ==
    IF obj \in sc.members THEN [sc EXCEPT !.raised = TRUE]
    ELSE [sc EXCEPT !.members = @ \cup {obj}]

\* faulty variant: no membership test and no try/except around link
link_vnode_into_scene_Unguarded(n, sc) ==
    IF sc.raised \/ blender_object[n] = None THEN sc
    ELSE CollectionLink(sc, blender_object[n])

\* sc is the collection's membership, and whether an exception is on its
\* way out
link_vnode_into_scene(n, sc) ==
    IF sc.raised \/ blender_object[n] = None THEN sc
    ELSE IF v280
         THEN IF ~NameIn(blender_object[n], sc.members)
              THEN CollectionLink(sc, blender_object[n]) ELSE sc
         \* try: scene.objects.link(...) except Exception: pass
         ELSE [CollectionLink(sc, blender_object[n]) EXCEPT !.raised = FALSE]

RECURSIVE link_tree_into_scene(_, _)
RECURSIVE LinkChildren(_, _)
\* for child in vnode.children: link_tree_into_scene(child, scene)
LinkChildren(cs, sc) ==
    IF cs = <<>> THEN sc
    ELSE LinkChildren(Tail(cs), link_tree_into_scene(Head(cs), sc))

\* faulty variant: the recursion stops at a vnode that has no object
link_tree_into_scene_StopAtUnrealized(n, sc) ==
    IF blender_object[n] = None THEN sc
    ELSE LinkChildren(children(n), link_vnode_into_scene(n, sc))

link_tree_into_scene(n, sc) ==
    LinkChildren(children(n), link_vnode_into_scene(n, sc))

\* the last step of realize_vtree
link_everything_into_scene ==
    /\ pc = "link"
    /\ LET sc == link_tree_into_scene(root_vnode,
                                      [members |-> scene, raised |-> FALSE]) IN
       /\ scene' = sc.members
       /\ pc' = IF sc.raised THEN "raised" ELSE "done"
       /\ render_engine' = IF ~sc.raised /\ render_engine = "BLENDER_RENDER"
                           THEN "CYCLES" ELSE render_engine
       /\ hist' = [hist EXCEPT !.links = @ + 1, !.before = scene,
                               !.linked = sc.members]
    /\ UNCHANGED <<inputs, blender_object, blender_name, blender_editbone,
                   mode, objects, stack, fm, mw>>

\* link_tree_into_scene is called once more, on the same tree and scene
LinkAgain ==
    /\ pc = "done" /\ hist.links <= MaxRelinks
    /\ LET sc == link_tree_into_scene(root_vnode,
                                      [members |-> scene, raised |-> FALSE]) IN
       /\ scene' = sc.members
       /\ pc' = IF sc.raised THEN "raised" ELSE pc
       /\ hist' = [hist EXCEPT !.links = @ + 1]
    /\ UNCHANGED <<inputs, blender_object, blender_name, blender_editbone,
                   mode, objects, render_engine, stack, fm, mw>>

Next == Start \/ Pass1 \/ pass2 \/ link_everything_into_scene \/ LinkAgain

Spec == Init /\ [][Next]_vars

(* ------------------- a tree that breaks the data model ----------------- *)
\* a joint node that carries a skinned mesh was not split: the mesh sits on
\* the BONE vnode, which gets an edit bone in pass 1 and no object
MeshesUnsplit(ty) ==
    Pick([n \in VNodes |-> IF ty[n] \in {"OBJECT", "BONE"}
                           THEN {NoMesh, MeshSkinned} ELSE {NoMesh}], MaxNodes)

\* realize_vtree is called on such a tree
InitUnsplit ==
    /\ parent \in Trees
    /\ vtype \in TypesOf(parent)
    /\ armature_vnode \in OwnersOf(parent, vtype)
    /\ name \in [VNodes -> Names]
    /\ mesh \in MeshesUnsplit(vtype)
    /\ joints \in IF \E n \in VNodes : mesh[n].skin # None
                  THEN JointLists(vtype, armature_vnode) ELSE {<<>>}
    /\ posebone_s = [n \in VNodes |-> NoValue]
    /\ mesh_moved_to = [n \in VNodes |-> <<>>]
    /\ shape_keys = [n \in VNodes |-> FALSE]
    /\ add_root \in BOOLEAN
    /\ v280 \in BOOLEAN
    /\ mode = "OBJECT"
    /\ scene = {1}
    /\ render_engine \in EnginesOf(v280)
    /\ pc = "start"
    /\ fm = FmIdle
    /\ mw = MwIdle
    /\ InitRealized

SpecUnsplit == InitUnsplit /\ [][Next]_vars

(* ------------------------- find_mesh_instances ------------------------- *)
\* the vnodes find_mesh_instances is run on: the ones below the root
FmNodes == {n \in VNodes : 1 < n /\ n <= MaxFm + 1}

\* forwarding lists without a cycle: the vnodes are numbered so that a mesh
\* only moves to a higher vnode
MovedTo ==
    Pick([n \in VNodes |->
            IF n \in FmNodes
            THEN UNION {[1..k -> {m \in FmNodes : m > n}] : k \in 0..MaxMoved}
            ELSE {<<>>}], MaxNodes)

\* a flat tree: every vnode but the root is an OBJECT below the root; some
\* of them carry a mesh, and meshes have moved
InitFM ==
    /\ parent = [n \in VNodes |-> IF n = root_vnode THEN None ELSE root_vnode]
    /\ vtype = [n \in VNodes |-> IF n = root_vnode THEN "ROOT" ELSE "OBJECT"]
    /\ armature_vnode = [n \in VNodes |-> None]
    /\ name = [n \in VNodes |-> "a"]
    /\ mesh \in Pick([n \in VNodes |-> IF n \in FmNodes THEN {NoMesh, MeshNoSkin}
                                          ELSE {NoMesh}], MaxNodes)
    /\ joints = <<>>
    /\ posebone_s = [n \in VNodes |-> NoValue]
    /\ mesh_moved_to \in MovedTo
    /\ shape_keys = [n \in VNodes |-> FALSE]
    /\ add_root = FALSE
    /\ v280 = TRUE
    /\ mode = "OBJECT"
    /\ scene = {1}
    /\ render_engine = "BLENDER_EEVEE"
    /\ pc = "done"
    /\ fm = FmIdle
    /\ mw = MwIdle
    /\ InitRealized

FmTop == fm.frames[Len(fm.frames)]

\* faulty variant: `vnodes = r + vnodes`: the result is built back to front
FmReturn_Prepend(r) ==
    IF Len(fm.frames) = 1
    THEN [fm EXCEPT !.pc = "done", !.frames = <<>>, !.result = r]
    ELSE [fm EXCEPT !.frames =
            [SubSeq(fm.frames, 1, Len(fm.frames) - 1) EXCEPT
                ![Len(fm.frames) - 1].vnodes = r \o @,
                ![Len(fm.frames) - 1].i = @ + 1]]

\* faulty variant: the loop of the caller does not move on to its next
\* target, and keeps the last result only
FmReturn_NoAdvance(r) ==
    IF Len(fm.frames) = 1
    THEN [fm EXCEPT !.pc = "done", !.frames = <<>>, !.result = r]
    ELSE [fm EXCEPT !.frames =
            [SubSeq(fm.frames, 1, Len(fm.frames) - 1) EXCEPT
                ![Len(fm.frames) - 1].vnodes = r]]

\* a call returns r: to the caller of find_mesh_instances, or to the
\* frame below, which does `vnodes += r` and goes on with its loop
FmReturn(r) ==
    IF Len(fm.frames) = 1
    THEN [fm EXCEPT !.pc = "done", !.frames = <<>>, !.result = r]
    ELSE [fm EXCEPT !.frames =
            [SubSeq(fm.frames, 1, Len(fm.frames) - 1) EXCEPT
                ![Len(fm.frames) - 1].vnodes = @ \o r,
                ![Len(fm.frames) - 1].i = @ + 1]]

FmUnchanged ==
    UNCHANGED <<inputs, blender_object, blender_name, blender_editbone, mode,
                objects, scene, render_engine, pc, stack, mw, hist>>

\* find_mesh_instances(vnode) is called
FmCall ==
    /\ fm.pc = "idle"
    /\ \E v \in FmNodes :
          fm' = [fm EXCEPT !.pc = "run", !.of = v,
                           !.frames = <<[vnode |-> v, i |-> 1, vnodes |-> <<>>]>>]
    /\ FmUnchanged

\* if vnode.mesh: return [vnode]
FmReturnSelf ==
    /\ fm.pc = "run" /\ mesh[FmTop.vnode].has
    /\ fm' = FmReturn(<<FmTop.vnode>>)
    /\ FmUnchanged

\* faulty variant: every iteration recurses into the first target
FmRecurse_FirstTarget ==
    /\ fm.pc = "run" /\ ~mesh[FmTop.vnode].has
    /\ FmTop.i <= Len(mesh_moved_to[FmTop.vnode])
    /\ fm' = [fm EXCEPT !.frames =
                Append(@, [vnode |-> mesh_moved_to[FmTop.vnode][1],
                           i |-> 1, vnodes |-> <<>>])]
    /\ FmUnchanged

\* for moved_to in vnode.mesh_moved_to: find_mesh_instances(moved_to)
FmRecurse ==
    /\ fm.pc = "run" /\ ~mesh[FmTop.vnode].has
    /\ FmTop.i <= Len(mesh_moved_to[FmTop.vnode])
    /\ fm' = [fm EXCEPT !.frames =
                Append(@, [vnode |-> mesh_moved_to[FmTop.vnode][FmTop.i],
                           i |-> 1, vnodes |-> <<>>])]
    /\ FmUnchanged

\* return vnodes
FmReturnList ==
    /\ fm.pc = "run" /\ ~mesh[FmTop.vnode].has
    /\ FmTop.i > Len(mesh_moved_to[FmTop.vnode])
    /\ fm' = FmReturn(FmTop.vnodes)
    /\ FmUnchanged

find_mesh_instances == FmCall \/ FmReturnSelf \/ FmRecurse \/ FmReturnList

SpecFM == InitFM /\ [][find_mesh_instances]_vars

\* a step of a call in progress
FmStep == FmReturnSelf \/ FmRecurse \/ FmReturnList

\* find_mesh_instances is synchronous code: a call that can take a step
\* takes it
SpecFMLive == SpecFM /\ WF_vars(FmStep)

(* ---------------------- add_morph_weight_animation --------------------- *)
\* bpy.data.objects after realize_vtree has run on the flat tree of InitFM
\* with add_root off: one object per vnode below the root, in the order of
\* the vnodes, each under the next free name
FlatObjects ==
    [o \in 1..MaxNodes |->
        IF o = 1 THEN PreObject ELSE NewObject(<<"a", o - 1>>)]

\* the state realize_vtree leaves behind for the flat tree: every OBJECT has
\* its object and is linked.  The shape keys of the mesh data differ from
\* copy to copy.
InitMW ==
    /\ parent = [n \in VNodes |-> IF n = root_vnode THEN None ELSE root_vnode]
    /\ vtype = [n \in VNodes |-> IF n = root_vnode THEN "ROOT" ELSE "OBJECT"]
    /\ armature_vnode = [n \in VNodes |-> None]
    /\ name = [n \in VNodes |-> "a"]
    /\ mesh \in Pick([n \in VNodes |-> IF n \in FmNodes THEN {NoMesh, MeshNoSkin}
                                          ELSE {NoMesh}], MaxNodes)
    /\ joints = <<>>
    /\ posebone_s = [n \in VNodes |-> NoValue]
    /\ mesh_moved_to \in MovedTo
    /\ shape_keys \in Pick([n \in VNodes |-> IF mesh[n].has THEN BOOLEAN
                                               ELSE {FALSE}], MaxNodes)
    /\ add_root = FALSE
    /\ v280 = TRUE
    /\ mode = "OBJECT"
    /\ scene = 1..MaxNodes
    /\ render_engine = "BLENDER_EEVEE"
    /\ pc = "done"
    /\ fm = FmIdle
    /\ mw = MwIdle
    /\ blender_object = [n \in VNodes |-> IF n = root_vnode THEN None ELSE n]
    /\ blender_name = [n \in VNodes |-> NoValue]
    /\ blender_editbone = [n \in VNodes |-> NoValue]
    /\ objects = FlatObjects
    /\ stack = <<>>
    /\ hist = [NoHist EXCEPT !.done1 = VNodes, !.done2 = VNodes, !.links = 1,
                             !.before = {1}, !.linked = 1..MaxNodes]

MwUnchanged ==
    UNCHANGED <<inputs, blender_object, blender_name, blender_editbone, mode,
                objects, scene, render_engine, pc, stack, hist>>

\* vnodes = find_mesh_instances(op.node_id_to_vnode[node_id])
MwCall ==
    /\ mw.pc = "idle" /\ fm.pc = "idle"
    /\ \E node_id \in FmNodes :
          /\ mw' = [mw EXCEPT !.pc = "find", !.node_id = node_id]
          /\ fm' = [fm EXCEPT !.pc = "run", !.of = node_id_to_vnode(node_id),
                              !.frames = <<[vnode |-> node_id_to_vnode(node_id),
                                            i |-> 1, vnodes |-> <<>>]>>]
    /\ MwUnchanged

\* `for vnode in vnodes` is at the vnode of index mw.i
MwInLoop == mw.pc = "find" /\ fm.pc = "done" /\ mw.i <= Len(fm.result)

MwVnode == fm.result[mw.i]

\* if not blender_object.data.shape_keys: return
MwNoShapeKeys ==
    /\ MwInLoop /\ ~shape_keys[MwVnode]
    /\ mw' = [mw EXCEPT !.pc = "done"]
    /\ UNCHANGED fm /\ MwUnchanged

\* '%s@%s (Morph)' % (<animation name>, blender_object.name), made unique
\* by bpy.data.actions.new: one animation is bound, so the name is told by
\* the object's name
ActionName(obj_name) ==
    Uniq(obj_name, {mw.actions[k].name : k \in DOMAIN mw.actions})

\* action = bpy.data.actions.new(name); action.id_root = 'KEY';
\* anim_info.morph_actions[blender_object.name] = action
MwCreateAction ==
    /\ MwInLoop /\ shape_keys[MwVnode]
    /\ LET obj_name == objects[blender_object[MwVnode]].name IN
       mw' = [mw EXCEPT
                 !.actions = Append(@, [name |-> ActionName(obj_name),
                                        id_root |-> "KEY"]),
                 !.morph_actions = {e \in @ : e[1] # obj_name}
                                     \cup {<<obj_name, Len(mw.actions) + 1>>},
                 !.i = @ + 1]
    /\ UNCHANGED fm /\ MwUnchanged

\* the loop is over
MwReturn ==
    /\ mw.pc = "find" /\ fm.pc = "done" /\ mw.i > Len(fm.result)
    /\ mw' = [mw EXCEPT !.pc = "done"]
    /\ UNCHANGED fm /\ MwUnchanged

add_morph_weight_animation ==
    MwCall \/ FmStep \/ MwNoShapeKeys \/ MwCreateAction \/ MwReturn

SpecMW == InitMW /\ [][add_morph_weight_animation]_vars

(* ============================ properties =============================== *)
Armatures == {n \in VNodes : vtype[n] = "ARMATURE"}

BonesOf(a) == {b \in VNodes : vtype[b] = "BONE" /\ armature_vnode[b] = a}

Realized == {blender_object[n] : n \in VNodes} \ {None}

AfterPass1 == pc \in {"pass2", "link", "done"}

AfterPass2 == pc \in {"link", "done"}

NoNestedArmatures ==
    \A a, b \in Armatures : a \notin Ancestors(parent, b)

\* C1: in a tree where no ARMATURE lies below another ARMATURE, pass 1
\* enters edit mode once and leaves it once per ARMATURE, every bone of the
\* armature is created between that enter and that exit, and the scopes of
\* two armatures never overlap.
C1_EditModeBracketsBones ==
    NoNestedArmatures =>
        /\ \A a \in Armatures :
              /\ hist.enters[a] <= 1
              /\ hist.exits[a] <= hist.enters[a]
              /\ AfterPass1 => hist.enters[a] = 1 /\ hist.exits[a] = 1
              /\ \A b \in BonesOf(a) :
                    /\ b \in hist.done1 => hist.boneOpen[b] = {a}
                    /\ hist.exits[a] = 1 => b \in hist.done1
        /\ Cardinality(hist.open) <= 1
        /\ hist.open # {} => mode = "EDIT"

\* pass 1 is over for a lone armature with three bones
C1_Witness ==
    /\ NoNestedArmatures /\ AfterPass1
    /\ \E a \in Armatures :
          Cardinality(BonesOf(a)) = 3 /\ hist.exits[a] = 1 /\ hist.enters[a] = 1

\* C2: edit mode is never entered for an armature while the edit-mode scope
\* of another armature is still open, whatever the tree.
C2_EditModeNonReentrant ==
    \A a, b \in hist.open : a = b

\* C3: when a creation call fails inside the subtree of an ARMATURE, edit
\* mode has been left by the time the failure leaves realize_vtree.
C3_EditModeLeftOnFailure ==
    (pc = "raised" /\ hist.failed # None /\ hist.open # {}) => mode = "OBJECT"

\* C4: a failed creation call ends realize_vtree: the failing vnode is not
\* retried, no later vnode is realized, pass 2 and the linker do not run,
\* and the failure reaches the caller.
C4_CreationFailureIsFatal ==
    hist.failed # None =>
        /\ pc = "raised"
        /\ hist.done1 = {n \in VNodes : n < hist.failed}
        /\ \A n \in VNodes : n >= hist.failed => blender_object[n] = None
        /\ hist.done2 = {}
        /\ hist.links = 0

\* a creation call failed after some vnodes were realized and before others
C4_Witness ==
    /\ pc = "raised"
    /\ 1 < hist.failed /\ hist.failed < MaxNodes
    /\ \E n \in VNodes : blender_object[n] # None

\* C5: blender_object / blender_name of a vnode are read only after the
\* pass-1 step of that vnode; pass 2 starts after pass 1 is over for every
\* vnode; the armature object exists when one of its bones is created.
C5_ReadsFollowRealization ==
    /\ hist.early = {}
    /\ hist.done2 # {} => hist.done1 = VNodes
    /\ \A b \in hist.done1 :
          vtype[b] = "BONE" =>
              /\ hist.ownerSeen[b] # None
              /\ hist.ownerSeen[b] = blender_object[armature_vnode[b]]

\* a run that read objects and names in both passes: a bone below a bone,
\* an object below a bone, a skinned mesh and a pose scale
C5_Witness ==
    /\ pc = "done"
    /\ \E n \in VNodes : mesh[n].has /\ mesh[n].skin # None
    /\ \E b \in VNodes : vtype[b] = "BONE" /\ posebone_s[b] # NoValue
    /\ \E n \in VNodes : vtype[n] = "OBJECT" /\ vtype[parent[n]] = "BONE"

\* C6: after pass 2 the object of a vnode whose mesh has a skin carries one
\* vertex group per joint of the skin, in the order of the joint list and
\* named by the joint's blender_name, one ARMATURE modifier on the object of
\* the armature of the first joint with use_vertex_groups set, and one
\* local-space COPY_TRANSFORMS constraint on that same object; every other
\* object carries none of them.
C6_SkinBinding ==
    AfterPass2 =>
        /\ \A n \in VNodes :
              (mesh[n].has /\ mesh[n].skin # None) =>
                  LET arm == armature_vnode[node_id_to_vnode(joints[1])]
                      obj == objects[blender_object[n]]
                  IN  /\ blender_object[n] # None
                      /\ vtype[arm] = "ARMATURE" /\ blender_object[arm] # None
                      /\ Len(obj.vertex_groups) = Len(joints)
                      /\ \A i \in DOMAIN joints :
                            /\ blender_name[node_id_to_vnode(joints[i])] # NoValue
                            /\ obj.vertex_groups[i] =
                                   blender_name[node_id_to_vnode(joints[i])]
                      /\ obj.modifiers =
                            <<[name |-> "Skin", type |-> "ARMATURE",
                               object |-> blender_object[arm],
                               use_vertex_groups |-> TRUE]>>
                      /\ obj.constraints =
                            <<[type |-> "COPY_TRANSFORMS",
                               owner_space |-> "LOCAL", target_space |-> "LOCAL",
                               target |-> blender_object[arm]]>>
        /\ \A o \in DOMAIN objects :
              (~\E n \in VNodes : /\ blender_object[n] = o
                                  /\ mesh[n].has /\ mesh[n].skin # None) =>
                  /\ objects[o].vertex_groups = <<>>
                  /\ objects[o].modifiers = <<>>
                  /\ objects[o].constraints = <<>>

\* pass 2 is over for a mesh skinned to two joints that are listed against
\* the order of their creation, the first of them renamed by Blender
C6_Witness ==
    /\ pc = "done"
    /\ Len(joints) = 2 /\ joints[1] > joints[2]
    /\ blender_name[joints[1]] # <<name[joints[1]], 0>>
    /\ \E n \in VNodes : mesh[n].has /\ mesh[n].skin # None

\* C7: after pass 2 the pose bone found under a BONE's blender_name in the
\* object of its armature_vnode is the BONE's own bone and has the scale
\* posebone_s, when it is set; pass 2 writes no other pose scale.
C7_PoseScaleOverride ==
    AfterPass2 =>
        /\ \A b \in VNodes :
              (vtype[b] = "BONE" /\ posebone_s[b] # NoValue) =>
                  LET arm == blender_object[armature_vnode[b]] IN
                  \E i \in DOMAIN objects[arm].edit_bones :
                      /\ objects[arm].edit_bones[i].name = blender_name[b]
                      /\ \A j \in DOMAIN objects[arm].edit_bones :
                            objects[arm].edit_bones[j].name = blender_name[b]
                                => j = i
                      /\ blender_editbone[b] = <<arm, i>>
                      /\ objects[arm].pose[i] = posebone_s[b]
        /\ hist.posed =
              {<<blender_object[armature_vnode[b]], blender_name[b]>> :
                  b \in {c \in VNodes : vtype[c] = "BONE" /\ posebone_s[c] # NoValue}}
        /\ \A o \in DOMAIN objects : \A i \in DOMAIN objects[o].pose :
              <<o, objects[o].edit_bones[i].name>> \notin hist.posed
                  => objects[o].pose[i] = UnitScale

\* pass 2 is over for an armature with a renamed bone that has a pose scale
\* and a bone that has none
C7_Witness ==
    /\ pc = "done"
    /\ \E b, c \in VNodes :
          /\ vtype[b] = "BONE" /\ vtype[c] = "BONE"
          /\ armature_vnode[b] = armature_vnode[c]
          /\ posebone_s[b] # NoValue /\ posebone_s[c] = NoValue
          /\ blender_name[b] # <<name[b], 0>>

\* C8: linking the tree a second time leaves the membership of the scene
\* as the first call left it, and neither call raises.
C8_LinkIdempotent ==
    /\ hist.links >= 1 => pc = "done"
    /\ hist.links >= 2 => scene = hist.linked

\* the tree was linked twice, and the first call linked something
C8_Witness ==
    /\ hist.links = 2
    /\ hist.linked # hist.before
    /\ Realized # {}

\* C9: after the tree is linked the scene holds what it held before and the
\* object of every vnode that has one, also below a vnode that has none.
C9_LinkMembership ==
    hist.links >= 1 => scene = hist.before \cup Realized

\* the tree was linked with no object for the root, an object for a vnode
\* below it, and an object in the scene beforehand
C9_Witness ==
    /\ hist.links = 1
    /\ blender_object[root_vnode] = None
    /\ \E n \in VNodes : parent[n] = root_vnode /\ blender_object[n] \in scene
    /\ hist.before # {} /\ hist.before \subseteq scene

RECURSIVE Locate(_)
RECURSIVE LocateAll(_)
\* the concatenation of Locate(m) for the vnodes m of a forwarding list
LocateAll(ms) ==
    IF ms = <<>> THEN <<>> ELSE Locate(Head(ms)) \o LocateAll(Tail(ms))

\* what the mesh-instance locator is specified to return
Locate(v) == IF mesh[v].has THEN <<v>> ELSE LocateAll(mesh_moved_to[v])

RECURSIVE Forwarded(_)
\* the vnodes reachable from v along mesh_moved_to, v included
Forwarded(v) ==
    {v} \cup UNION {Forwarded(mesh_moved_to[v][i]) : i \in DOMAIN mesh_moved_to[v]}

\* C10: find_mesh_instances(vnode) returns [vnode] when the vnode has a
\* mesh, whatever its mesh_moved_to; else the concatenation, in order, of
\* the results for its forwarding targets; and the empty list when no vnode
\* reachable along mesh_moved_to has a mesh.
C10_FindMeshInstances ==
    fm.pc = "done" =>
        /\ mesh[fm.of].has => fm.result = <<fm.of>>
        /\ ~mesh[fm.of].has => fm.result = LocateAll(mesh_moved_to[fm.of])
        /\ (\A v \in Forwarded(fm.of) : ~mesh[v].has) => fm.result = <<>>

\* a call on a vnode without a mesh returned two vnodes, one of them found
\* through a forwarding target that has no mesh itself
C10_Witness ==
    /\ fm.pc = "done" /\ ~mesh[fm.of].has
    /\ Len(fm.result) = 2
    /\ \E m \in Range(mesh_moved_to[fm.of]) :
          ~mesh[m].has /\ mesh_moved_to[m] # <<>>

\* C11: on forwarding lists without a cycle, every call of
\* find_mesh_instances returns, and what it returns is a finite sequence of
\* vnodes.
C11_FindMeshInstancesTerminates ==
    (fm.pc = "run") ~> (fm.pc = "done" /\ fm.result \in Seq(FmNodes))

\* a call returned after it went two levels down the forwarding lists
C11_Witness ==
    /\ fm.pc = "done"
    /\ \E m \in Range(mesh_moved_to[fm.of]) :
          ~mesh[fm.of].has /\ ~mesh[m].has /\ mesh_moved_to[m] # <<>>

\* the actions add_morph_weight_animation created for the object of vnode v
ActionsFor(v) ==
    {k \in DOMAIN mw.actions :
        mw.actions[k].name[1] = objects[blender_object[v]].name}

\* C12: when add_morph_weight_animation returns, every vnode that
\* find_mesh_instances returned and whose mesh data has shape keys has
\* exactly one morph action, recorded in morph_actions under the name of its
\* object, wherever the vnode stands in the sequence; a vnode whose mesh
\* data has no shape keys has none.
C12_MorphFanOut ==
    mw.pc = "done" =>
        \A i \in DOMAIN fm.result :
            LET v == fm.result[i]
                obj_name == objects[blender_object[v]].name
            IN  IF shape_keys[v]
                THEN /\ Cardinality(ActionsFor(v)) = 1
                     /\ \E k \in ActionsFor(v) : <<obj_name, k>> \in mw.morph_actions
                ELSE /\ ActionsFor(v) = {}
                     /\ \A e \in mw.morph_actions : e[1] # obj_name

Descendants(a) == {n \in VNodes : a \in Ancestors(parent, n)}

\* C13: the post-order step of an ARMATURE runs after every vnode below it
\* was realized, leaves edit mode and takes the armature's object out of
\* the scene collection; the object stays out until the linker runs, and is
\* in the collection when realize_vtree returns.  Every ARMATURE has had
\* that step when pass 1 is over.
C13_ArmatureUnlinkedUntilLinker ==
    \A a \in Armatures :
        /\ hist.exits[a] >= 1 =>
              /\ hist.atExit[a].mode = "OBJECT"
              /\ hist.atExit[a].was_member /\ ~hist.atExit[a].member
              /\ Descendants(a) \subseteq hist.atExit[a].done
        /\ (hist.exits[a] >= 1 /\ hist.links = 0) => blender_object[a] \notin scene
        /\ AfterPass1 => hist.exits[a] = 1
        /\ pc = "done" => blender_object[a] \in scene

\* realize_vtree returned, on the older build, for an armature that lies
\* below another one and has a bone and an object below it
C13_Witness ==
    /\ pc = "done" /\ ~v280
    /\ \E a, b \in Armatures :
          /\ b \in Ancestors(parent, a)
          /\ \E n, m \in Descendants(a) : vtype[n] = "BONE" /\ vtype[m] = "OBJECT"
          /\ ~hist.atExit[a].member /\ blender_object[a] \in scene

\* C14: the object realize_object created for an OBJECT vnode is parented
\* to the object of the armature of its parent BONE, by bone, under the
\* BONE's blender_name; else to the object of its parent when the parent has
\* one; and has no parent when the parent has no object.  The object exists
\* in every case.
C14_ObjectParentWiring ==
    \A n \in hist.done1 :
        vtype[n] = "OBJECT" =>
            /\ blender_object[n] \in DOMAIN objects
            /\ LET obj == objects[blender_object[n]]
                   p == parent[n]
               IN  IF p = None THEN obj.parent = None
                   ELSE IF vtype[p] = "BONE"
                   THEN /\ obj.parent = blender_object[armature_vnode[p]]
                        /\ obj.parent # None
                        /\ obj.parent_type = "BONE"
                        /\ obj.parent_bone = blender_name[p]
                        /\ \E i \in DOMAIN objects[obj.parent].edit_bones :
                              /\ objects[obj.parent].edit_bones[i].name = obj.parent_bone
                              /\ blender_editbone[p] = <<obj.parent, i>>
                   ELSE IF blender_object[p] # None
                   THEN /\ obj.parent = blender_object[p]
                        /\ obj.parent_type = "OBJECT"
                        /\ obj.parent_bone = NoValue
                   ELSE /\ obj.parent = None
                        /\ obj.parent_type = "OBJECT"
                        /\ obj.parent_bone = NoValue

\* realize_vtree returned with an object below a BONE, parented by bone,
\* and an object below the ROOT, which has no object
C14_Witness ==
    /\ pc = "done" /\ blender_object[root_vnode] = None
    /\ \E n, m \in VNodes :
          /\ vtype[n] = "OBJECT" /\ vtype[parent[n]] = "BONE"
          /\ objects[blender_object[n]].parent_type = "BONE"
          /\ vtype[m] = "OBJECT" /\ parent[m] = root_vnode
          /\ objects[blender_object[m]].parent = None

\* the vnodes whose object or name pass 2 needs and pass 1 did not set
Pass2Missing ==
    {n \in VNodes : HasSkin(n) /\ blender_object[n] = None}
    \cup {m \in UNION {Pass2Reads(n) : n \in VNodes} :
             \/ vtype[m] = "BONE" /\ blender_name[m] = NoValue
             \/ vtype[m] = "ARMATURE" /\ blender_object[m] = None}

\* C15: when pass 1 is over and has left a vnode without the object or the
\* name pass 2 needs, pass 2 does no work on any vnode and the linker does
\* not run: pass 2 fails at its entry, with a RealizationError.
C15_Pass2FailsFast ==
    (hist.done1 = VNodes /\ Pass2Missing # {}) =>
        /\ hist.done2 = {}
        /\ pc \notin {"link", "done"}
        /\ pc = "raised" => hist.error = "RealizationError"

\* C16: whenever realize_bone has set editbone.parent from the parent's
\* blender_editbone, the parent is a BONE of the same armature_vnode, and
\* edit mode was not left between the creation of the parent's edit bone and
\* that read.
C16_EditboneReadInEditMode ==
    \A d \in hist.deref :
        /\ vtype[d.parent] = "BONE"
        /\ armature_vnode[d.parent] = armature_vnode[d.bone]
        /\ d.exits = 0

\* C17 as claimed: when realize_vtree returns, the mode is OBJECT and the
\* post-order step has left edit mode once per ARMATURE of the tree,
\* whatever the mode at the call and whether or not the first mode_set
\* succeeded.
C17_ObjectModeOnCompletion ==
    pc = "done" => mode = "OBJECT" /\ Exits = Cardinality(Armatures)

\* C17, amended: when realize_vtree returns, the post-order step has left
\* edit mode once per ARMATURE of the tree; the mode is OBJECT when the tree
\* has an ARMATURE, and in a tree without one no step after the first
\* mode_set changes the mode, so that the mode realize_vtree returns in is
\* the one that mode_set left (the mode at the call, when it failed).
C17_ModeOnCompletion ==
    [][/\ (pc # "start" /\ Armatures = {}) => mode' = mode
       /\ pc' = "done" => /\ Armatures # {} => mode' = "OBJECT"
                          /\ Exits' = Cardinality(Armatures)]_vars

\* realize_vtree returned in edit mode: it was called in edit mode, the
\* first mode_set failed, and the tree has no ARMATURE
C17_Witness ==
    pc = "done" /\ mode = "EDIT" /\ Armatures = {} /\ Realized # {}

NoDup(sq) == \A i, j \in DOMAIN sq : sq[i] = sq[j] => i = j

Count(v, sq) == Cardinality({i \in DOMAIN sq : sq[i] = v})

RECURSIVE Paths(_, _)
RECURSIVE PathsAll(_, _)
\* the number of forwarding paths from the vnodes of the list ms to v
PathsAll(ms, v) ==
    IF ms = <<>> THEN 0 ELSE Paths(Head(ms), v) + PathsAll(Tail(ms), v)

\* the number of forwarding paths from u to v that end at the first vnode
\* with a mesh
Paths(u, v) ==
    IF mesh[u].has THEN (IF u = v THEN 1 ELSE 0)
    ELSE PathsAll(mesh_moved_to[u], v)

\* no vnode is reached from u along two forwarding paths
ForwardingTree(u) ==
    \A w \in Forwarded(u) :
        /\ NoDup(mesh_moved_to[w])
        /\ \A i, j \in DOMAIN mesh_moved_to[w] :
              i # j => Forwarded(mesh_moved_to[w][i])
                           \cap Forwarded(mesh_moved_to[w][j]) = {}

=============================================================================
